---- MODULE Spec2Model ----
(***************************************************************************)
(* Model of src/app.py: PriceScraper.scrape_price_and_sku (the session     *)
(* orchestrator and the two selector searches), extract_price_from_text    *)
(* and looks_like_sku.                                                     *)
(*                                                                         *)
(* Representation.                                                         *)
(*   - A Python str is a sequence of one-character strings.                *)
(*   - None is the empty tuple, a present value v is the 1-tuple <<v>>.    *)
(*   - A price (a float parsed from at most two decimals) is kept as its   *)
(*     number of cents, so 0.01 is 1 and 10000 is 1000000.                 *)
(*   - A confidence is kept in tenths: 0.8 is 8, 0.3 is 3, 0.0 is 0.       *)
(*   - An exception is modelled by its str(); every exception a browser    *)
(*     operation raises is of class Exception (what `except Exception`     *)
(*     catches).  Nothing in app.py cancels the task or throws into it.    *)
(***************************************************************************)
EXTENDS Integers, Sequences, FiniteSets, TLC

None == <<>>

Some(v) == <<v>>

(***************************************************************************)
(* Characters                                                              *)
(***************************************************************************)
Digits == {"0", "1", "2", "3", "4", "5", "6", "7", "8", "9"}

DigitSeq == <<"0", "1", "2", "3", "4", "5", "6", "7", "8", "9">>

UpperSeq == <<"A", "B", "C", "D", "E", "F", "G", "H", "I", "J", "K", "L", "M",
              "N", "O", "P", "Q", "R", "S", "T", "U", "V", "W", "X", "Y", "Z">>

LowerSeq == <<"a", "b", "c", "d", "e", "f", "g", "h", "i", "j", "k", "l", "m",
              "n", "o", "p", "q", "r", "s", "t", "u", "v", "w", "x", "y", "z">>

Whitespace == {" ", "\t", "\n"}

UpperSet == {UpperSeq[i] : i \in 1..26}

LowerSet == {LowerSeq[i] : i \in 1..26}

DigitValues == [c \in Digits |-> (CHOOSE i \in 1..10 : DigitSeq[i] = c) - 1]

DigitVal(c) == DigitValues[c]

IsUpper(c) == c \in UpperSet

IsLower(c) == c \in LowerSet

\* case folding as re.IGNORECASE applies it to the ASCII letters
LowerOf == [c \in UpperSet |-> LowerSeq[CHOOSE i \in 1..26 : UpperSeq[i] = c]]

ToLower(c) == IF c \in UpperSet THEN LowerOf[c] ELSE c

\* text[a:b] with 1-based inclusive start a and exclusive end b
Slice(t, a, b) == IF b <= a THEN <<>> ELSE SubSeq(t, a, b - 1)

\* number of characters of t from position s on that belong to class C (a run)
RECURSIVE RunLen(_, _, _)
RunLen(t, s, C) ==
    IF s > Len(t) \/ t[s] \notin C THEN 0 ELSE 1 + RunLen(t, s + 1, C)

(***************************************************************************)
(* extract_price_from_text, line 130: re.sub of the noise alternation      *)
(***************************************************************************)
noise_tokens ==
    << <<"w", "a", "s">>,
       <<"o", "r", "i", "g">>,
       <<"o", "r", "i", "g", "i", "n", "a", "l", "l", "y">>,
       <<"s", "a", "v", "e">>,
       <<"y", "o", "u", " ", "s", "a", "v", "e">>,
       <<"m", "s", "r", "p">> >>

\* does token tok match text t at position s, ignoring case
TokenAt(t, s, tok) ==
    /\ s + Len(tok) - 1 <= Len(t)
    /\ \A k \in 1..Len(tok) : ToLower(t[s + k - 1]) = tok[k]

\* the alternation at position s: length of the first alternative that
\* matches there, 0 when none does
NoiseAt(t, s) ==
    LET hits == {k \in 1..Len(noise_tokens) : TokenAt(t, s, noise_tokens[k])}
    IN  IF hits = {} THEN 0
        ELSE Len(noise_tokens[CHOOSE k \in hits : \A j \in hits : k <= j])

\* re.sub scans left to right, deletes each match and resumes after it
RECURSIVE SubFrom(_, _)
SubFrom(t, s) ==
    IF s > Len(t) THEN <<>>
    ELSE LET n == NoiseAt(t, s)
         IN  IF n > 0 THEN SubFrom(t, s + n)
             ELSE <<t[s]>> \o SubFrom(t, s + 1)

normalize(t) == SubFrom(t, 1)

(***************************************************************************)
(* extract_price_from_text, lines 133-151                                  *)
(***************************************************************************)
\* The shared numeric shape \d{1,3}(?:,\d{3})*\.?\d{0,2} tried at position s:
\* a way of matching it is <<d1, g, dot, d2>>, the number of leading digits,
\* of ",ddd" groups, of dots and of trailing digits.
ShapeEnd(s, w) == s + w[1] + 4 * w[2] + w[3] + w[4]

AllDigits(t, a, n) == \A k \in 0..(n - 1) : a + k <= Len(t) /\ t[a + k] \in Digits

ShapeOK(t, s, w) ==
    /\ AllDigits(t, s, w[1])
    /\ \A k \in 0..(w[2] - 1) :
          LET c == s + w[1] + 4 * k
          IN  c <= Len(t) /\ t[c] = "," /\ AllDigits(t, c + 1, 3)
    /\ w[3] = 1 => LET d == s + w[1] + 4 * w[2] IN d <= Len(t) /\ t[d] = "."
    /\ AllDigits(t, s + w[1] + 4 * w[2] + w[3], w[4])

\* every way starts with a digit; at most (Len(t) - s) \div 4 groups fit
Shapes(t, s) ==
    IF s > Len(t) \/ t[s] \notin Digits THEN {}
    ELSE {w \in (1..3) \X (0..((Len(t) - s) \div 4)) \X (0..1) \X (0..2) :
             ShapeOK(t, s, w)}

\* the order in which the backtracking matcher visits the ways: every
\* quantifier is greedy, so the longer choice of an earlier quantifier first
Before(v, w) ==
    \/ v[1] > w[1]
    \/ v[1] = w[1] /\ v[2] > w[2]
    \/ v[1] = w[1] /\ v[2] = w[2] /\ v[3] > w[3]
    \/ v[1] = w[1] /\ v[2] = w[2] /\ v[3] = w[3] /\ v[4] >= w[4]

\* \s*USD at position e (the search is case-sensitive: findall has no flag)
UsdAt(t, e) ==
    LET u == e + RunLen(t, e, Whitespace)
    IN  u + 2 <= Len(t) /\ t[u] = "U" /\ t[u + 1] = "S" /\ t[u + 2] = "D"

\* price_patterns with the bare pattern tried first
price_patterns_BareFirst == <<"bare", "usd", "dollar">>

price_patterns == <<"dollar", "usd", "bare">>

\* what has to surround the numeric shape in pattern p: s is where the
\* pattern starts, e where the shape ends
PrefixLen(p) == IF p = "dollar" THEN 1 ELSE 0

PrefixOK(t, s, p) == p = "dollar" => (s <= Len(t) /\ t[s] = "$")

SuffixOK(t, e, p) == p = "usd" => UsdAt(t, e)

\* the ways pattern p matches when started at position s
WaysAt(t, s, p) ==
    IF PrefixOK(t, s, p)
    THEN {w \in Shapes(t, s + PrefixLen(p)) :
             SuffixOK(t, ShapeEnd(s + PrefixLen(p), w), p)}
    ELSE {}

\* the capture group of the match of p at s: the first successful way
GroupAt(t, s, p) ==
    LET ways == WaysAt(t, s, p)
        w    == CHOOSE v \in ways : \A x \in ways : Before(v, x)
    IN  Slice(t, s + PrefixLen(p), ShapeEnd(s + PrefixLen(p), w))

\* re.findall(pattern, text)[0]: the scan takes the leftmost start that matches
RECURSIVE FirstFrom(_, _, _)
FirstFrom(t, s, p) ==
    IF s > Len(t) THEN None
    ELSE IF WaysAt(t, s, p) # {} THEN Some(GroupAt(t, s, p))
    ELSE FirstFrom(t, s + 1, p)

FirstMatch(t, p) == FirstFrom(t, 1, p)

\* str.replace(',', '')
RECURSIVE StripCommas(_)
StripCommas(str) ==
    IF str = <<>> THEN <<>>
    ELSE IF Head(str) = "," THEN StripCommas(Tail(str))
    ELSE <<Head(str)>> \o StripCommas(Tail(str))

RECURSIVE DigitsValue(_)
DigitsValue(ds) ==
    IF ds = <<>> THEN 0
    ELSE 10 * DigitsValue(SubSeq(ds, 1, Len(ds) - 1)) + DigitVal(ds[Len(ds)])

\* float(price_str) in cents; None stands for ValueError
ParseFloat(str) ==
    LET n == RunLen(str, 1, Digits)
        hasDot == n < Len(str) /\ str[n + 1] = "."
        frac == IF hasDot THEN Slice(str, n + 2, Len(str) + 1) ELSE <<>>
        wellFormed == /\ n >= 1
                      /\ (~hasDot => n = Len(str))
                      /\ \A k \in 1..Len(frac) : frac[k] \in Digits
                      /\ Len(frac) <= 2
    IN  IF ~wellFormed THEN None
        ELSE Some(100 * DigitsValue(Slice(str, 1, n + 1))
                  + (IF Len(frac) = 0 THEN 0
                     ELSE IF Len(frac) = 1 THEN 10 * DigitVal(frac[1])
                     ELSE DigitsValue(frac)))

MinPrice == 1

MaxPrice == 1000000

\* InRange without the upper limit
InRange_NoUpper(cents) == MinPrice <= cents

InRange(cents) == MinPrice <= cents /\ cents <= MaxPrice

\* TryPatterns with an out-of-range first match ending the search
RECURSIVE TryPatterns_FirstFinal(_, _)
TryPatterns_FirstFinal(t, k) ==
    IF k > Len(price_patterns) THEN None
    ELSE LET matches == FirstMatch(t, price_patterns[k])
         IN  IF matches = None THEN TryPatterns_FirstFinal(t, k + 1)
             ELSE LET price_val == ParseFloat(StripCommas(matches[1]))
                  IN  IF price_val = None THEN TryPatterns_FirstFinal(t, k + 1)
                      ELSE IF InRange(price_val[1]) THEN price_val
                      ELSE None

\* the for loop of lines 139-149 from pattern number k on
RECURSIVE TryPatterns(_, _)
TryPatterns(t, k) ==
    IF k > Len(price_patterns) THEN None
    ELSE LET matches == FirstMatch(t, price_patterns[k])
         IN  IF matches = None THEN TryPatterns(t, k + 1)
             ELSE LET price_val == ParseFloat(StripCommas(matches[1]))
                  IN  IF price_val = None THEN TryPatterns(t, k + 1)
                      ELSE IF InRange(price_val[1]) THEN price_val
                      ELSE TryPatterns(t, k + 1)

extract_price_from_text(text) ==
    IF text = <<>> THEN None ELSE TryPatterns(normalize(text), 1)

(***************************************************************************)
(* looks_like_sku, lines 153-172                                           *)
(***************************************************************************)
\* str.strip()
strip(t) ==
    LET lead == RunLen(t, 1, Whitespace)
        keep == {k \in 1..Len(t) : t[k] \notin Whitespace}
        last == IF keep = {} THEN 0 ELSE CHOOSE k \in keep : \A j \in keep : j <= k
    IN  IF keep = {} THEN <<>> ELSE SubSeq(t, lead + 1, last)

\* [A-Z] and [A-Z0-9] under re.IGNORECASE
Letters == UpperSet \cup LowerSet

Alnum == Letters \cup Digits

sku_patterns == <<"digits6", "alnum3", "num_dash_alnum", "letters_digits">>

\* re.match(pattern, text, re.IGNORECASE) for the anchored pattern p: each
\* pattern is a sequence of character runs, matched greedily from position 1
\* and required to end at the end of the text
SkuMatch(t, p) ==
    IF p = "digits6"
    THEN LET n == RunLen(t, 1, Digits) IN n >= 6 /\ n = Len(t)
    ELSE IF p = "alnum3"
    THEN LET n == RunLen(t, 1, Alnum) IN n >= 3 /\ n = Len(t)
    ELSE IF p = "num_dash_alnum"
    THEN LET n == RunLen(t, 1, Digits)
             m == RunLen(t, n + 2, Alnum)
         IN  /\ n >= 3
             /\ n + 1 <= Len(t) /\ t[n + 1] = "-"
             /\ m >= 1 /\ n + 1 + m = Len(t)
    ELSE \* "letters_digits": [A-Z]{2,}\d+ ; the letter run gives back nothing
         \* useful, a digit is never a letter
         LET n == RunLen(t, 1, Letters)
             m == RunLen(t, n + 1, Digits)
         IN  n >= 2 /\ m >= 1 /\ n + m = Len(t)

RECURSIVE AnySkuPattern(_, _)
AnySkuPattern(t, k) ==
    IF k > Len(sku_patterns) THEN FALSE
    ELSE IF SkuMatch(t, sku_patterns[k]) THEN TRUE
    ELSE AnySkuPattern(t, k + 1)

\* looks_like_sku matching the untrimmed text
looks_like_sku_NoStrip(text) ==
    IF text = <<>> \/ Len(strip(text)) < 3 THEN FALSE
    ELSE AnySkuPattern(text, 1)

looks_like_sku(text) ==
    IF text = <<>> \/ Len(strip(text)) < 3 THEN FALSE
    ELSE AnySkuPattern(strip(text), 1)

(***************************************************************************)
(* PriceScraper.__init__, lines 16-40                                      *)
(***************************************************************************)
price_selectors ==
    <<"[data-testid=\"price\"]", ".price", ".current-price", ".sale-price",
      ".product-price", "[class*=\"price\"]", "[id*=\"price\"]",
      ".price-current", ".price-now", "[data-price]">>

sku_selectors ==
    <<"[data-testid=\"sku\"]", ".sku", ".item-number", ".product-sku",
      ".model-number", "[class*=\"sku\"]", "[id*=\"sku\"]",
      "[class*=\"item\"]", ".internet-number">>

(***************************************************************************)
(* The environment of one call of scrape_price_and_sku: the url asked for, *)
(* what the browser answers to a query, what an exception says.            *)
(***************************************************************************)
\* lines 16-40 and 174: the one PriceScraper of the process
PriceScraper ==
    [price_selectors |-> price_selectors, sku_selectors |-> sku_selectors]

MaxElements == 2

Urls == {"https://shop.example/a", "https://shop.example/b"}

ExcMessages == {"", "net::ERR_NAME_NOT_RESOLVED"}

PageTexts ==
    { <<>>,
      <<"$", "1", "9", ".", "9", "9">>,
      <<"w", "a", "s", " ", "$", "5">>,
      <<"S", "K", "U", "1", "2", "3", "4", "5">>,
      <<" ", "A", "B", "C", " ">> }

\* an element handle: get_text() returns its text or raises
Elements == [raises : {FALSE}, text : PageTexts] \cup {[raises |-> TRUE, text |-> <<>>]}

ElementLists == UNION {[1..n -> Elements] : n \in 0..MaxElements}

Fields == {"price", "sku"}

(***************************************************************************)
(* scrape_price_and_sku, lines 42-122                                      *)
(***************************************************************************)
VARIABLES
    pc,         \* the statement the coroutine is at
    url,        \* the argument
    browser,    \* the local of line 43: None or the session uc.start returned
    sel,        \* index of the selector of the running for loop
    elements,   \* the elements of the current selector still to be read
    price,      \* the local of line 62
    sku,        \* the local of line 63
    result,     \* the value of the return statement that ran, held over finally
    returned,   \* what the caller received
    escaped,    \* the exception that left the coroutine, if any
    stopCalls,  \* number of calls of browser.stop()
    \* what happened, recorded for the properties
    raisedAt,   \* the step whose exception reached line 107
    selFailed,  \* a select_all or get_text raised
    stopRaised, \* browser.stop() raised
    firstAcc,   \* per field, the value of the first accepted element of the
                \* first queried selector that has an accepted element
    firstReach, \* the same, counting only elements before the first failing read
    \* the pure functions applied on their own
    fnPc, fnText, fnOut,
    \* the /scrape endpoint around the coroutine
    request,    \* the body of the POST, None when the coroutine is called directly
    response,   \* None, or the status and the JSON body sent back
    \* several calls of the coroutine on the one scraper object
    inv,        \* per invocation, its locals
    sessions,   \* the browser sessions launched so far, in launch order
    scraper     \* the module-level PriceScraper of line 174

scrapeVars == <<pc, url, browser, sel, elements, price, sku, result, returned,
                escaped, stopCalls, raisedAt, selFailed, stopRaised,
                firstAcc, firstReach>>

fnVars == <<fnPc, fnText, fnOut>>

epVars == <<request, response>>

concVars == <<inv, sessions, scraper>>

vars == <<pc, url, browser, sel, elements, price, sku, result, returned,
          escaped, stopCalls, raisedAt, selFailed, stopRaised,
          firstAcc, firstReach, fnPc, fnText, fnOut,
          request, response, inv, sessions, scraper>>

\* lines 71-74: the price an element text gives, None when it is passed over
PriceOf(text) ==
    IF text = <<>> THEN None
    ELSE LET extracted_price == extract_price_from_text(text)
         IN  IF extracted_price # None /\ extracted_price[1] # 0
             THEN extracted_price ELSE None

\* lines 89-90: the sku an element text gives
SkuOf(text) ==
    IF text # <<>> /\ looks_like_sku(text) THEN Some(strip(text)) ELSE None

\* PriceOf and SkuOf over the texts a page element can have, computed once
RECURSIVE TableOf(_, _)
TableOf(f, texts) ==
    IF texts = {} THEN <<>>
    ELSE LET text == CHOOSE t \in texts : TRUE
         IN  (text :> (IF f = "price" THEN PriceOf(text) ELSE SkuOf(text)))
                 @@ TableOf(f, texts \ {text})

page_prices == TableOf("price", PageTexts)

page_skus == TableOf("sku", PageTexts)

ValueOf(f, text) == IF f = "price" THEN page_prices[text] ELSE page_skus[text]

\* SuccessResult with a confidence that also asks for a sku
SuccessResult_SkuWeighted ==
    [success |-> TRUE, price |-> price, sku |-> sku, source |-> url,
     confidence |-> IF price # None /\ sku # None THEN 8 ELSE 3]

\* lines 99-105
SuccessResult ==
    [success |-> TRUE, price |-> price, sku |-> sku, source |-> url,
     confidence |-> IF price # None THEN 8 ELSE 3]

\* FailureResult with the low confidence of a success without price
FailureResult_LowConfidence(msg) ==
    [success |-> FALSE, error |-> msg, price |-> None, sku |-> None,
     source |-> url, confidence |-> 3]

\* lines 109-116
FailureResult(msg) ==
    [success |-> FALSE, error |-> msg, price |-> None, sku |-> None,
     source |-> url, confidence |-> 0]

\* lines 107-116: the handler of the outer try, entered with exception msg
Except(step, msg) ==
    /\ result' = Some(FailureResult(msg))
    /\ raisedAt' = step
    /\ pc' = "finally"

\* the positions of list l whose text field f accepts
Accepted(f, l) == {k \in 1..Len(l) : ~l[k].raises /\ ValueOf(f, l[k].text) # None}

\* those of them that the element loop gets to: no read before them raises
Reached(f, l) == {k \in Accepted(f, l) : \A j \in 1..k : ~l[j].raises}

FirstOf(f, l, S) ==
    LET k == CHOOSE x \in S : \A y \in S : x <= y
    IN  ValueOf(f, l[k].text)

\* the bookkeeping of a select_all that returned list l
Observe(f, l) ==
    /\ firstAcc' = [firstAcc EXCEPT ![f] =
          IF @ = None /\ Accepted(f, l) # {} THEN FirstOf(f, l, Accepted(f, l)) ELSE @]
    /\ firstReach' = [firstReach EXCEPT ![f] =
          IF @ = None /\ Reached(f, l) # {} THEN FirstOf(f, l, Reached(f, l)) ELSE @]

Init ==
    /\ pc = "start"
    /\ url \in Urls
    /\ browser = None
    /\ sel = 1
    /\ elements = <<>>
    /\ price = None
    /\ sku = None
    /\ result = None
    /\ returned = None
    /\ escaped = None
    /\ stopCalls = 0
    /\ raisedAt = "none"
    /\ selFailed = FALSE
    /\ stopRaised = FALSE
    /\ firstAcc = [f \in Fields |-> None]
    /\ firstReach = [f \in Fields |-> None]
    /\ fnPc = "off"
    /\ fnText = <<>>
    /\ fnOut = None
    /\ request = None
    /\ response = None
    /\ inv = <<>>
    /\ sessions = <<>>
    /\ scraper = PriceScraper

\* line 48: uc.start(...) returns a session
Launch ==
    /\ pc = "start"
    /\ browser' = Some("session")
    /\ pc' = "navigate"
    /\ UNCHANGED <<url, sel, elements, price, sku, result, returned, escaped,
                   stopCalls, raisedAt, selFailed, stopRaised, firstAcc, firstReach, fnVars, epVars, concVars>>

\* line 48: uc.start(...) raises; browser keeps its None
LaunchRaise(msg) ==
    /\ pc = "start"
    /\ Except("launch", msg)
    /\ UNCHANGED <<url, browser, sel, elements, price, sku, returned, escaped,
                   stopCalls, selFailed, stopRaised, firstAcc, firstReach, fnVars, epVars, concVars>>

\* Navigate without the sleep of line 60: the first query follows at once
Navigate_SkipsSettle ==
    /\ pc = "navigate"
    /\ pc' = "price_query"
    /\ UNCHANGED <<url, browser, sel, elements, price, sku, result, returned,
                   escaped, stopCalls, raisedAt, selFailed, stopRaised,
                   firstAcc, firstReach, fnVars, epVars, concVars>>

\* lines 56-57: page.get(url) returns
Navigate ==
    /\ pc = "navigate"
    /\ pc' = "settle"
    /\ UNCHANGED <<url, browser, sel, elements, price, sku, result, returned,
                   escaped, stopCalls, raisedAt, selFailed, stopRaised, firstAcc, firstReach, fnVars, epVars, concVars>>

\* NavigateRaise returning from the handler without running the finally block
NavigateRaise_SkipsFinally(msg) ==
    /\ pc = "navigate"
    /\ result' = Some(FailureResult(msg))
    /\ returned' = Some(FailureResult(msg))
    /\ raisedAt' = "navigate"
    /\ pc' = "done"
    /\ UNCHANGED <<url, browser, sel, elements, price, sku, escaped,
                   stopCalls, selFailed, stopRaised,
                   firstAcc, firstReach, fnVars, epVars, concVars>>

\* lines 56-57: page.get(url) raises
NavigateRaise(msg) ==
    /\ pc = "navigate"
    /\ Except("navigate", msg)
    /\ UNCHANGED <<url, browser, sel, elements, price, sku, returned, escaped,
                   stopCalls, selFailed, stopRaised, firstAcc, firstReach, fnVars, epVars, concVars>>

\* lines 60-63: the sleep ends, price and sku are set to None
Settle ==
    /\ pc = "settle"
    /\ price' = None
    /\ sku' = None
    /\ sel' = 1
    /\ pc' = "price_query"
    /\ UNCHANGED <<url, browser, elements, result, returned, escaped,
                   stopCalls, raisedAt, selFailed, stopRaised, firstAcc, firstReach, fnVars, epVars, concVars>>

\* lines 66, 77-81: the price loop goes on to its next selector, or ends
NextPriceSelector ==
    /\ elements' = <<>>
    /\ IF sel < Len(price_selectors)
       THEN pc' = "price_query" /\ sel' = sel + 1
       ELSE pc' = "sku_query" /\ sel' = 1

\* lines 84, 93-97: the sku loop goes on to its next selector, or ends
\* NextSkuSelector starting the SKU selectors over after the last one
NextSkuSelector_Wraps ==
    /\ elements' = <<>>
    /\ IF sel < Len(sku_selectors)
       THEN pc' = "sku_query" /\ sel' = sel + 1
       ELSE pc' = "sku_query" /\ sel' = 1

NextSkuSelector ==
    /\ elements' = <<>>
    /\ IF sel < Len(sku_selectors)
       THEN pc' = "sku_query" /\ sel' = sel + 1
       ELSE pc' = "return" /\ sel' = sel

\* line 68: select_all(selector) returns the list l
PriceQuery(l) ==
    /\ pc = "price_query"
    /\ Observe("price", l)
    /\ IF l = <<>>
       THEN NextPriceSelector
       ELSE pc' = "price_read" /\ elements' = l /\ sel' = sel
    /\ UNCHANGED <<url, browser, price, sku, result, returned, escaped,
                   stopCalls, raisedAt, selFailed, stopRaised, fnVars, epVars, concVars>>

\* PriceQueryRaise with a handler that leaves the selector loop
PriceQueryRaise_Breaks ==
    /\ pc = "price_query"
    /\ selFailed' = TRUE
    /\ elements' = <<>>
    /\ pc' = "sku_query"
    /\ sel' = 1
    /\ UNCHANGED <<url, browser, price, sku, result, returned, escaped,
                   stopCalls, raisedAt, stopRaised, firstAcc,
                   firstReach, fnVars, epVars, concVars>>

\* lines 68, 79-81: select_all(selector) raises
PriceQueryRaise ==
    /\ pc = "price_query"
    /\ selFailed' = TRUE
    /\ NextPriceSelector
    /\ UNCHANGED <<url, browser, price, sku, result, returned, escaped,
                   stopCalls, raisedAt, stopRaised, firstAcc,
                   firstReach, fnVars, epVars, concVars>>

\* PriceReadText returning as soon as a price is found, without a sku search
PriceReadText_SkipsSku ==
    /\ pc = "price_read"
    /\ ~Head(elements).raises
    /\ LET extracted_price == page_prices[Head(elements).text]
       IN  IF extracted_price # None
           THEN /\ price' = extracted_price
                /\ pc' = "return"
                /\ sel' = 1
                /\ elements' = <<>>
           ELSE /\ UNCHANGED price
                /\ IF Tail(elements) = <<>>
                   THEN NextPriceSelector
                   ELSE pc' = pc /\ sel' = sel /\ elements' = Tail(elements)
    /\ UNCHANGED <<url, browser, sku, result, returned, escaped, stopCalls,
                   raisedAt, selFailed, stopRaised, firstAcc,
                   firstReach, fnVars, epVars, concVars>>

\* lines 69-78: get_text() of the next element returns
PriceReadText ==
    /\ pc = "price_read"
    /\ ~Head(elements).raises
    /\ LET extracted_price == page_prices[Head(elements).text]
       IN  IF extracted_price # None
           THEN /\ price' = extracted_price
                /\ pc' = "sku_query"
                /\ sel' = 1
                /\ elements' = <<>>
           ELSE /\ UNCHANGED price
                /\ IF Tail(elements) = <<>>
                   THEN NextPriceSelector
                   ELSE pc' = pc /\ sel' = sel /\ elements' = Tail(elements)
    /\ UNCHANGED <<url, browser, sku, result, returned, escaped, stopCalls,
                   raisedAt, selFailed, stopRaised, firstAcc,
                   firstReach, fnVars, epVars, concVars>>

\* PriceReadRaise with the handler inside the element loop: the failing
\* element is skipped and the next element of the same selector is read
PriceReadRaise_SkipsElement ==
    /\ pc = "price_read"
    /\ Head(elements).raises
    /\ selFailed' = TRUE
    /\ IF Tail(elements) = <<>>
       THEN NextPriceSelector
       ELSE pc' = pc /\ sel' = sel /\ elements' = Tail(elements)
    /\ UNCHANGED <<url, browser, price, sku, result, returned, escaped,
                   stopCalls, raisedAt, stopRaised, firstAcc,
                   firstReach, fnVars, epVars, concVars>>

\* lines 70, 79-81: get_text() raises, the handler abandons the selector
PriceReadRaise ==
    /\ pc = "price_read"
    /\ Head(elements).raises
    /\ selFailed' = TRUE
    /\ NextPriceSelector
    /\ UNCHANGED <<url, browser, price, sku, result, returned, escaped,
                   stopCalls, raisedAt, stopRaised, firstAcc,
                   firstReach, fnVars, epVars, concVars>>

\* line 86
SkuQuery(l) ==
    /\ pc = "sku_query"
    /\ Observe("sku", l)
    /\ IF l = <<>>
       THEN NextSkuSelector
       ELSE pc' = "sku_read" /\ elements' = l /\ sel' = sel
    /\ UNCHANGED <<url, browser, price, sku, result, returned, escaped,
                   stopCalls, raisedAt, selFailed, stopRaised, fnVars, epVars, concVars>>

\* lines 86, 95-97
SkuQueryRaise ==
    /\ pc = "sku_query"
    /\ selFailed' = TRUE
    /\ NextSkuSelector
    /\ UNCHANGED <<url, browser, price, sku, result, returned, escaped,
                   stopCalls, raisedAt, stopRaised, firstAcc,
                   firstReach, fnVars, epVars, concVars>>

\* lines 87-94
SkuReadText ==
    /\ pc = "sku_read"
    /\ ~Head(elements).raises
    /\ LET found == page_skus[Head(elements).text]
       IN  IF found # None
           THEN /\ sku' = found
                /\ pc' = "return"
                /\ sel' = sel
                /\ elements' = <<>>
           ELSE /\ UNCHANGED sku
                /\ IF Tail(elements) = <<>>
                   THEN NextSkuSelector
                   ELSE pc' = pc /\ sel' = sel /\ elements' = Tail(elements)
    /\ UNCHANGED <<url, browser, price, result, returned, escaped, stopCalls,
                   raisedAt, selFailed, stopRaised, firstAcc,
                   firstReach, fnVars, epVars, concVars>>

\* lines 88, 95-97
SkuReadRaise ==
    /\ pc = "sku_read"
    /\ Head(elements).raises
    /\ selFailed' = TRUE
    /\ NextSkuSelector
    /\ UNCHANGED <<url, browser, price, sku, result, returned, escaped,
                   stopCalls, raisedAt, stopRaised, firstAcc,
                   firstReach, fnVars, epVars, concVars>>

\* lines 99-105: the return statement of the try block
\* Return handing the result to the caller at the return statement
Return_Delivers ==
    /\ pc = "return"
    /\ result' = Some(SuccessResult)
    /\ returned' = Some(SuccessResult)
    /\ pc' = "finally"
    /\ UNCHANGED <<url, browser, sel, elements, price, sku, escaped,
                   stopCalls, raisedAt, selFailed, stopRaised, firstAcc,
                   firstReach, fnVars, epVars, concVars>>

Return ==
    /\ pc = "return"
    /\ result' = Some(SuccessResult)
    /\ pc' = "finally"
    /\ UNCHANGED <<url, browser, sel, elements, price, sku, returned, escaped,
                   stopCalls, raisedAt, selFailed, stopRaised, firstAcc, firstReach, fnVars, epVars, concVars>>

\* lines 117-120: browser is set, stop() returns, the pending return completes
StopOk ==
    /\ pc = "finally"
    /\ browser # None
    /\ stopCalls' = stopCalls + 1
    /\ returned' = result
    /\ pc' = "done"
    /\ UNCHANGED <<url, browser, sel, elements, price, sku, result, escaped,
                   raisedAt, selFailed, stopRaised, firstAcc, firstReach, fnVars, epVars, concVars>>

\* StopRaise without the inner handler: the exception of stop() replaces
\* the pending return
StopRaise_Masks ==
    /\ pc = "finally"
    /\ browser # None
    /\ stopCalls' = stopCalls + 1
    /\ stopRaised' = TRUE
    /\ returned' = None
    /\ escaped' = Some("stop failed")
    /\ pc' = "done"
    /\ UNCHANGED <<url, browser, sel, elements, price, sku, result,
                   raisedAt, selFailed, firstAcc, firstReach, fnVars, epVars, concVars>>

\* lines 117-122: stop() raises, the handler logs, the pending return completes
StopRaise ==
    /\ pc = "finally"
    /\ browser # None
    /\ stopCalls' = stopCalls + 1
    /\ stopRaised' = TRUE
    /\ returned' = result
    /\ pc' = "done"
    /\ UNCHANGED <<url, browser, sel, elements, price, sku, result, escaped,
                   raisedAt, selFailed, firstAcc,
                   firstReach, fnVars, epVars, concVars>>

\* NoBrowser with an unguarded finally block: stop() is called although
\* uc.start never returned a session
NoBrowser_StopsAnyway ==
    /\ pc = "finally"
    /\ browser = None
    /\ stopCalls' = stopCalls + 1
    /\ returned' = result
    /\ pc' = "done"
    /\ UNCHANGED <<url, browser, sel, elements, price, sku, result, escaped,
                   raisedAt, selFailed, stopRaised, firstAcc, firstReach, fnVars, epVars, concVars>>

\* lines 117-118: browser is None, nothing to stop
NoBrowser ==
    /\ pc = "finally"
    /\ browser = None
    /\ returned' = result
    /\ pc' = "done"
    /\ UNCHANGED <<url, browser, sel, elements, price, sku, result, escaped,
                   stopCalls, raisedAt, selFailed, stopRaised, firstAcc, firstReach, fnVars, epVars, concVars>>

Next ==
    \/ Launch
    \/ \E msg \in ExcMessages : LaunchRaise(msg)
    \/ Navigate
    \/ \E msg \in ExcMessages : NavigateRaise(msg)
    \/ Settle
    \/ \E l \in ElementLists : PriceQuery(l)
    \/ PriceQueryRaise
    \/ PriceReadText
    \/ PriceReadRaise
    \/ \E l \in ElementLists : SkuQuery(l)
    \/ SkuQueryRaise
    \/ SkuReadText
    \/ SkuReadRaise
    \/ Return
    \/ StopOk
    \/ StopRaise
    \/ NoBrowser

Spec == Init /\ [][Next]_vars

(***************************************************************************)
(* The pure functions applied on their own to bounded sets of texts        *)
(***************************************************************************)
MaxPieces == 4

MaxNormLen == 6

MaxSkuLen == 5

RECURSIVE Flatten(_)
Flatten(ps) == IF ps = <<>> THEN <<>> ELSE Head(ps) \o Flatten(Tail(ps))

TextsOver(A, n) == UNION {[1..k -> A] : k \in 0..n}

\* element texts for the price extractor: up to MaxPieces of these in a row
PricePieces ==
    { <<"$">>, <<"0">>, <<"1">>, <<"9">>, <<",">>, <<".">>, <<" ">>,
      <<"0", "0", "0">>, <<"U", "S", "D">>, <<"w", "a", "s">> }

PriceTexts == {Flatten(ps) : ps \in TextsOver(PricePieces, MaxPieces)}

NormTexts == TextsOver({"w", "a", "s", "A", "$"}, MaxNormLen)

SkuTexts == TextsOver({"1", "A", "b", "-", " ", "_"}, MaxSkuLen)

\* no call of scrape_price_and_sku is running
FnInit(texts) ==
    /\ pc = "start"
    /\ url = CHOOSE u \in Urls : TRUE
    /\ browser = None
    /\ sel = 1
    /\ elements = <<>>
    /\ price = None
    /\ sku = None
    /\ result = None
    /\ returned = None
    /\ escaped = None
    /\ stopCalls = 0
    /\ raisedAt = "none"
    /\ selFailed = FALSE
    /\ stopRaised = FALSE
    /\ firstAcc = [f \in Fields |-> None]
    /\ firstReach = [f \in Fields |-> None]
    /\ fnPc = "ready"
    /\ fnText \in texts
    /\ fnOut = None
    /\ request = None
    /\ response = None
    /\ inv = <<>>
    /\ sessions = <<>>
    /\ scraper = PriceScraper

InitPrice == FnInit(PriceTexts)

CallExtractPrice ==
    /\ fnPc = "ready"
    /\ fnOut' = Some(extract_price_from_text(fnText))
    /\ fnPc' = "done"
    /\ UNCHANGED <<fnText, scrapeVars, epVars, concVars>>

NextPrice == CallExtractPrice

SpecPrice == InitPrice /\ [][NextPrice]_vars

InitNorm == FnInit(NormTexts)

\* line 130 alone
CallNormalize ==
    /\ fnPc = "ready"
    /\ fnOut' = Some(normalize(fnText))
    /\ fnPc' = "done"
    /\ UNCHANGED <<fnText, scrapeVars, epVars, concVars>>

NextNorm == CallNormalize

SpecNorm == InitNorm /\ [][NextNorm]_vars

InitSku == FnInit(SkuTexts)

CallLooksLikeSku ==
    /\ fnPc = "ready"
    /\ fnOut' = Some(looks_like_sku(fnText))
    /\ fnPc' = "done"
    /\ UNCHANGED <<fnText, scrapeVars, epVars, concVars>>

NextSku == CallLooksLikeSku

SpecSku == InitSku /\ [][NextSku]_vars

(***************************************************************************)
(* Properties                                                              *)
(***************************************************************************)
PricePhase == {"price_query", "price_read"}

SkuPhase == {"sku_query", "sku_read"}

AfterPrice == SkuPhase \cup {"return", "finally", "done"}

AfterSku == {"return", "finally", "done"}

\* C1: on every path on which uc.start returned a session (normal
\* completion, navigation raising, failures during extraction), stop() is
\* called on it exactly once: not before the finally block, once when the
\* call has ended, never twice.
C1_StopExactlyOnce ==
    /\ stopCalls <= 1
    /\ pc # "done" => stopCalls = 0
    /\ (pc = "done" /\ browser # None) => stopCalls = 1

C1_Witness ==
    pc = "done" /\ browser # None /\ raisedAt = "navigate" /\ stopCalls = 1

\* C2: a result with success false has no price, no sku and confidence 0,
\* whichever step raised.
C2_FailureShape ==
    \A r \in {result, returned} :
        (r # None /\ ~r[1].success) =>
            r[1].price = None /\ r[1].sku = None /\ r[1].confidence = 0

C2_Witness ==
    pc = "done" /\ returned # None /\ ~returned[1].success /\ raisedAt = "navigate"

\* C3: a successful result has confidence 0.8 exactly when it has a price
\* and 0.3 otherwise, whatever the sku search found; a call that got through
\* navigation succeeds even when neither field was found.
C3_Confidence ==
    /\ \A r \in {result, returned} :
          (r # None /\ r[1].success) =>
              /\ r[1].price # None => r[1].confidence = 8
              /\ r[1].price = None => r[1].confidence = 3
    /\ (pc = "done" /\ raisedAt = "none") => (returned # None /\ returned[1].success)

C3_Witness ==
    /\ pc = "done" /\ returned # None /\ returned[1].success
    /\ returned[1].price # None /\ returned[1].sku = None
    /\ returned[1].confidence = 8

\* C4: when the launch or the navigation raises, the call does not let the
\* exception out: it returns success false, source equal to the url asked
\* for, and an error that is a non-empty string.
C4_ErrorResult ==
    (pc = "done" /\ raisedAt \in {"launch", "navigate"}) =>
        /\ escaped = None
        /\ returned # None
        /\ ~returned[1].success
        /\ returned[1].source = url
        /\ returned[1].error # ""

\* C5 as stated: each field's value is the first accepted element of the
\* earliest selector that has any accepted element, also when the read of
\* another element of that selector failed.
C5_EarliestAcceptable ==
    (pc = "done" /\ raisedAt = "none") =>
        /\ returned[1].price = firstAcc["price"]
        /\ returned[1].sku = firstAcc["sku"]

\* C5 amended: each field's value is the first accepted element of the
\* earliest selector in which an accepted element comes before every
\* failing read; a selector is queried only while no earlier selector had
\* such an element, and a failing read gives up the rest of its selector.
C5_EarliestReached ==
    /\ pc = "price_query" => (price = None /\ firstReach["price"] = None)
    /\ pc = "sku_query" => (sku = None /\ firstReach["sku"] = None)
    /\ pc \in AfterPrice /\ raisedAt = "none" => price = firstReach["price"]
    /\ pc \in AfterSku /\ raisedAt = "none" => sku = firstReach["sku"]
    /\ (pc = "done" /\ raisedAt = "none") =>
          /\ returned[1].price = firstReach["price"]
          /\ returned[1].sku = firstReach["sku"]

C5_Witness ==
    /\ pc = "done" /\ raisedAt = "none"
    /\ returned[1].price # None
    /\ returned[1].price = firstReach["price"]
    /\ firstAcc["price"] # firstReach["price"]

\* C6: a select_all or get_text that raises during either search is
\* swallowed: the loop goes on with the next selector, a loop ends only with
\* a value or after its last selector, and the call still succeeds with
\* nothing let out.
C6_SearchStep ==
    /\ pc \in PricePhase =>
          \/ pc' = "price_read" /\ sel' = sel
          \/ pc' = "price_query" /\ sel' = sel + 1 /\ price' = None
          \/ pc' = "sku_query" /\ (price' # None \/ sel = Len(price_selectors))
    /\ pc \in SkuPhase =>
          \/ pc' = "sku_read" /\ sel' = sel
          \/ pc' = "sku_query" /\ sel' = sel + 1 /\ sku' = None
          \/ pc' = "return" /\ (sku' # None \/ sel = Len(sku_selectors))
    /\ (pc = "price_read" /\ Head(elements).raises) =>
          IF sel < Len(price_selectors)
          THEN pc' = "price_query" /\ sel' = sel + 1
          ELSE pc' = "sku_query"
    /\ (pc = "sku_read" /\ Head(elements).raises) =>
          IF sel < Len(sku_selectors)
          THEN pc' = "sku_query" /\ sel' = sel + 1
          ELSE pc' = "return"
    /\ (selFailed' /\ ~selFailed) =>
          /\ pc' \in PricePhase \cup SkuPhase \cup {"return"}
          /\ (pc \in PricePhase /\ sel < Len(price_selectors)) =>
                (pc' = "price_query" /\ sel' = sel + 1)
          /\ (pc \in SkuPhase /\ sel < Len(sku_selectors)) =>
                (pc' = "sku_query" /\ sel' = sel + 1)

C6_Swallowed ==
    /\ [][C6_SearchStep]_vars
    /\ [](selFailed =>
            /\ raisedAt = "none"
            /\ escaped = None
            /\ pc = "done" => (returned # None /\ returned[1].success))

C6_Witness ==
    /\ pc = "done" /\ selFailed
    /\ returned # None /\ returned[1].success
    /\ returned[1].price # None /\ returned[1].sku # None

\* per pattern, the first match in the normalized text, parsed
Candidates(text) ==
    LET n == normalize(text)
    IN  [k \in 1..Len(price_patterns) |->
            LET m == FirstMatch(n, price_patterns[k])
            IN  IF m = None THEN None ELSE ParseFloat(StripCommas(m[1]))]

Matching(c) == {k \in DOMAIN c : c[k] # None}

Usable(c) == {k \in Matching(c) : InRange(c[k][1])}

Least(S) == CHOOSE k \in S : \A j \in S : k <= j

\* C7 as stated: the first match of the first pattern that matches at all is
\* final; when it is out of range the function returns absent.
C7_FirstPatternFinal ==
    fnPc = "done" =>
        LET c == Candidates(fnText)
        IN  Matching(c) # {} =>
                LET first == c[Least(Matching(c))]
                IN  fnOut[1] = IF InRange(first[1]) THEN first ELSE None

\* C7 amended: only the first match of a pattern is looked at, and an
\* out-of-range first match sends the search on to the next pattern: the
\* function returns the first match of the earliest pattern whose first
\* match is in [0.01, 10000], and absent when no pattern has one.
C7_EarliestUsable ==
    fnPc = "done" =>
        LET c == Candidates(fnText)
        IN  fnOut[1] = IF Usable(c) = {} THEN None ELSE c[Least(Usable(c))]

C7_Witness ==
    /\ fnPc = "done"
    /\ LET c == Candidates(fnText)
       IN  /\ Usable(c) # {}
           /\ Least(Matching(c)) < Least(Usable(c))
           /\ fnOut[1] = c[Least(Usable(c))]

\* C8: a stop() that raises is swallowed: the caller receives exactly the
\* result that was computed before the finally block, and no exception
\* leaves the call.
C8_StopFailureSwallowed ==
    stopRaised =>
        /\ pc = "done"
        /\ escaped = None
        /\ returned # None
        /\ returned = result
        /\ returned[1].success = (raisedAt = "none")

C8_Witness ==
    pc = "done" /\ stopRaised /\ returned # None /\ returned[1].success

\* C9: removing the noise tokens is idempotent: a second pass over the
\* output of one pass changes nothing.
C9_Idempotent ==
    fnPc = "done" => normalize(fnOut[1]) = fnOut[1]

\* the text without its leading and trailing whitespace
Trimmed(x) ==
    CHOOSE m \in {Slice(x, i, j) : i \in 1..(Len(x) + 1), j \in 1..(Len(x) + 1)} :
        \E i \in 1..(Len(x) + 1) : \E j \in i..(Len(x) + 1) :
            /\ m = Slice(x, i, j)
            /\ \A k \in 1..(i - 1) : x[k] \in Whitespace
            /\ \A k \in j..Len(x) : x[k] \in Whitespace
            /\ m # <<>> => (m[1] \notin Whitespace /\ m[Len(m)] \notin Whitespace)

DigitChar(c) == c \in Digits

LetterChar(c) == \E i \in 1..26 : ToLower(c) = LowerSeq[i]

AlnumChar(c) == DigitChar(c) \/ LetterChar(c)

SkuShape(t) ==
    \/ Len(t) >= 6 /\ \A k \in 1..Len(t) : DigitChar(t[k])
    \/ Len(t) >= 3 /\ \A k \in 1..Len(t) : AlnumChar(t[k])
    \/ \E h \in 4..(Len(t) - 1) :
          /\ t[h] = "-"
          /\ \A k \in 1..(h - 1) : DigitChar(t[k])
          /\ \A k \in (h + 1)..Len(t) : AlnumChar(t[k])
    \/ \E n \in 2..(Len(t) - 1) :
          /\ \A k \in 1..n : LetterChar(t[k])
          /\ \A k \in (n + 1)..Len(t) : DigitChar(t[k])

\* C10: looks_like_sku is true exactly when the trimmed text has at least 3
\* characters and is, as a whole and ignoring case, 6+ digits, or 3+
\* alphanumerics, or 3+ digits, a hyphen and 1+ alphanumerics, or 2+
\* letters followed by 1+ digits.
C10_SkuShape ==
    fnPc = "done" =>
        fnOut[1] = (Len(Trimmed(fnText)) >= 3 /\ SkuShape(Trimmed(fnText)))

C10_Witness ==
    /\ fnPc = "done" /\ fnOut[1]
    /\ fnText[1] \in Whitespace
    /\ \E k \in 1..Len(fnText) : IsLower(fnText[k])

\* C11 as stated: the release of the browser instance runs exactly once on
\* every path out of the call, the one where uc.start itself raises included.
C11_TeardownOnEveryPath ==
    pc = "done" => stopCalls = 1

\* C11 amended: the finally block is passed on every path out of the call,
\* and it releases the browser exactly once when uc.start returned a
\* session; when uc.start itself raised there is no session and stop() is
\* not called at all.
C11_TeardownIffLaunched ==
    /\ pc = "done" => stopCalls = (IF raisedAt = "launch" THEN 0 ELSE 1)
    /\ raisedAt = "launch" <=> (pc \in {"finally", "done"} /\ browser = None)

C11_Witness ==
    pc = "done" /\ raisedAt = "launch" /\ browser = None /\ stopCalls = 0

\* the statement that can follow a statement
Order ==
    { <<"start", "navigate">>, <<"start", "finally">>,
      <<"navigate", "settle">>, <<"navigate", "finally">>,
      <<"settle", "price_query">>,
      <<"price_query", "price_read">>, <<"price_read", "price_query">>,
      <<"price_query", "sku_query">>, <<"price_read", "sku_query">>,
      <<"sku_query", "sku_read">>, <<"sku_read", "sku_query">>,
      <<"sku_query", "return">>, <<"sku_read", "return">>,
      <<"return", "finally">>, <<"finally", "done">> }

\* C15: one call goes through launch, navigate, the settle delay, the price
\* queries, the sku queries and the teardown in this order, one at a time:
\* no query is issued before the delay has ended, no sku query before the
\* price search has finished, and stop() comes last.
C15_OrderStep ==
    /\ pc' # pc => <<pc, pc'>> \in Order
    /\ (pc' \in PricePhase /\ pc \notin PricePhase) => pc = "settle"
    /\ (pc' \in SkuPhase /\ pc \notin SkuPhase) =>
          /\ pc \in PricePhase
          /\ pc' = "sku_query" /\ sel' = 1
          /\ price' # None \/ sel = Len(price_selectors)
    /\ (pc \in PricePhase /\ pc' = "price_query") => sel' = sel + 1
    /\ (pc \in SkuPhase /\ pc' = "sku_query") => sel' = sel + 1
    /\ stopCalls' # stopCalls => (pc = "finally" /\ pc' = "done")

C15_Sequential ==
    /\ [][C15_OrderStep]_vars
    /\ [](browser = None => pc \in {"start", "finally", "done"})

C15_Witness ==
    /\ pc = "done" /\ raisedAt = "none" /\ ~selFailed /\ stopCalls = 1
    /\ price # None /\ sku # None

\* C16: the two searches do not cut each other short: whatever the price
\* search did (found a value, found nothing, failed on selectors), the sku
\* search starts at its first selector with nothing found yet and returns
\* what its own answers give; nothing in the sku search touches the price.
C16_Step ==
    /\ pc \in SkuPhase => price' = price
    /\ pc \in PricePhase => sku' = sku
    /\ (pc \in PricePhase /\ pc' \notin PricePhase) =>
          /\ pc' = "sku_query" /\ sel' = 1 /\ elements' = <<>>
          /\ sku' = None /\ firstReach'["sku"] = None
    /\ (pc' = "return" /\ pc # "return") => pc \in SkuPhase

C16_Independent ==
    /\ [][C16_Step]_vars
    /\ []((pc \in AfterSku /\ raisedAt = "none") =>
             /\ sku = firstReach["sku"]
             /\ price = firstReach["price"])

C16_Witness ==
    /\ pc = "done" /\ selFailed /\ returned # None
    /\ returned[1].price = None /\ returned[1].sku # None
    /\ firstAcc["price"] # None

\* the first match of the pattern named p in the normalized text n, parsed
Amount(n, p) ==
    LET m == FirstMatch(n, p)
    IN  IF m = None THEN None ELSE ParseFloat(StripCommas(m[1]))

\* C17: the pattern decides, not the position: when the first $-prefixed
\* amount of the normalized text is in range it is the result, separators
\* stripped, also when a USD-suffixed or a bare amount stands before it;
\* failing that, an in-range first USD-suffixed amount is the result, also
\* when a bare amount stands before it.
C17_PatternOrder ==
    fnPc = "done" =>
        LET n == normalize(fnText)
            d == Amount(n, "dollar")
            u == Amount(n, "usd")
            dOK == d # None /\ MinPrice <= d[1] /\ d[1] <= MaxPrice
            uOK == u # None /\ MinPrice <= u[1] /\ u[1] <= MaxPrice
        IN  /\ dOK => fnOut[1] = d
            /\ (~dOK /\ uOK) => fnOut[1] = u

C17_Witness ==
    /\ fnPc = "done"
    /\ LET n == normalize(fnText)
           d == Amount(n, "dollar")
           b == Amount(n, "bare")
       IN  /\ d # None /\ b # None /\ b # d
           /\ MinPrice <= b[1] /\ b[1] <= MaxPrice
           /\ fnOut[1] = d

\* C18: a price that extract_price_from_text returns, and so a price of a
\* result, lies in [0.01, 10000]; a candidate of 0 or above 10000 is never
\* returned.
C18_PriceInRange ==
    /\ (fnPc = "done" /\ fnOut[1] # None) =>
          (MinPrice <= fnOut[1][1] /\ fnOut[1][1] <= MaxPrice)
    /\ \A r \in {Some(price)} \cup
                {<<x[1].price>> : x \in {y \in {result, returned} : y # None}} :
          r[1] # None => (MinPrice <= r[1][1] /\ r[1][1] <= MaxPrice)

C18_Witness ==
    /\ fnPc = "done" /\ fnOut[1] = None
    /\ LET b == Amount(normalize(fnText), "bare")
       IN  b # None /\ b[1] > MaxPrice

\* every awaited browser operation eventually returns or raises
SpecLive == Spec /\ WF_vars(Next)

\* C19: when every browser operation eventually returns or raises, the
\* invocation eventually ends with a result handed back, its session, if
\* one was launched, stopped; the result is handed back once and never
\* replaced.
C19_Terminates ==
    /\ <>(pc = "done" /\ returned # None /\ (browser # None => stopCalls = 1))
    /\ [][returned # None => returned' = returned]_vars

C19_Witness ==
    /\ pc = "done" /\ returned # None
    /\ raisedAt = "none" /\ selFailed /\ stopRaised
    /\ sel = Len(sku_selectors)
    /\ returned[1].price = None /\ returned[1].sku = None

(***************************************************************************)
(* scrape_endpoint, lines 180-211                                          *)
(***************************************************************************)
\* The body of a POST.  kind "malformed" is a body get_json cannot parse;
\* otherwise data is the parsed value: an object as its set of <<key, value>>
\* pairs, an array as its set of <<index, item>> pairs, null as the empty set.
Requests ==
    {[kind |-> "malformed", data |-> {}],
     [kind |-> "null", data |-> {}],
     [kind |-> "object", data |-> {}],
     [kind |-> "object", data |-> {<<"materialName", "oak">>}],
     [kind |-> "array", data |-> {<<"0", "url">>}]}
    \cup {[kind |-> "object", data |-> {<<"url", u>>}] : u \in Urls \cup {""}}
    \cup {[kind |-> "object",
           data |-> {<<"url", u>>, <<"materialName", "oak">>}] : u \in Urls}

\* bool(data)
Truthy(d) == d.kind # "null" /\ d.data # {}

\* key in data: a key of an object, an item of an array
Contains(d, key) ==
    IF d.kind = "array" THEN \E p \in d.data : p[2] = key
    ELSE \E p \in d.data : p[1] = key

\* lines 205-211
ErrorBody(msg) ==
    [success |-> FALSE, error |-> msg, price |-> None, sku |-> None,
     confidence |-> 0]

InitEndpoint ==
    /\ pc = "request"
    /\ request \in Requests
    /\ response = None
    /\ url = ""
    /\ browser = None
    /\ sel = 1
    /\ elements = <<>>
    /\ price = None
    /\ sku = None
    /\ result = None
    /\ returned = None
    /\ escaped = None
    /\ stopCalls = 0
    /\ raisedAt = "none"
    /\ selFailed = FALSE
    /\ stopRaised = FALSE
    /\ firstAcc = [f \in Fields |-> None]
    /\ firstReach = [f \in Fields |-> None]
    /\ fnPc = "off"
    /\ fnText = <<>>
    /\ fnOut = None
    /\ inv = <<>>
    /\ sessions = <<>>
    /\ scraper = PriceScraper

\* line 183 raises: the handler of line 203 answers
GetJsonRaise(msg) ==
    /\ pc = "request"
    /\ request.kind = "malformed"
    /\ response' = Some([status |-> 500, body |-> ErrorBody(msg)])
    /\ pc' = "responded"
    /\ UNCHANGED <<url, browser, sel, elements, price, sku, result, returned,
                   escaped, stopCalls, raisedAt, selFailed, stopRaised,
                   firstAcc, firstReach, fnVars, request, concVars>>

\* lines 185-186
RejectMissingUrl ==
    /\ pc = "request"
    /\ request.kind # "malformed"
    /\ ~Truthy(request) \/ ~Contains(request, "url")
    /\ response' = Some([status |-> 400, body |-> [error |-> "URL is required"]])
    /\ pc' = "responded"
    /\ UNCHANGED <<url, browser, sel, elements, price, sku, result, returned,
                   escaped, stopCalls, raisedAt, selFailed, stopRaised,
                   firstAcc, firstReach, fnVars, request, concVars>>

\* line 188 on an array that holds "url": data['url'] raises TypeError
SubscriptRaise ==
    /\ pc = "request"
    /\ request.kind = "array"
    /\ Truthy(request) /\ Contains(request, "url")
    /\ response' = Some([status |-> 500,
                         body |-> ErrorBody("list indices must be integers or slices, not str")])
    /\ pc' = "responded"
    /\ UNCHANGED <<url, browser, sel, elements, price, sku, result, returned,
                   escaped, stopCalls, raisedAt, selFailed, stopRaised,
                   firstAcc, firstReach, fnVars, request, concVars>>

\* lines 188-198: the coroutine is started with data['url']
Invoke ==
    /\ pc = "request"
    /\ request.kind = "object"
    /\ Contains(request, "url")
    /\ url' = (CHOOSE p \in request.data : p[1] = "url")[2]
    /\ pc' = "start"
    /\ UNCHANGED <<browser, sel, elements, price, sku, result, returned,
                   escaped, stopCalls, raisedAt, selFailed, stopRaised,
                   firstAcc, firstReach, fnVars, epVars, concVars>>

\* lines 196-199, and 203-211 for an exception that left the coroutine
Respond ==
    /\ pc = "done"
    /\ response' = IF returned # None
                   THEN Some([status |-> 200, body |-> returned[1]])
                   ELSE Some([status |-> 500, body |-> ErrorBody(escaped[1])])
    /\ pc' = "responded"
    /\ UNCHANGED <<url, browser, sel, elements, price, sku, result, returned,
                   escaped, stopCalls, raisedAt, selFailed, stopRaised,
                   firstAcc, firstReach, fnVars, request, concVars>>

NextEndpoint ==
    \/ \E msg \in ExcMessages : GetJsonRaise(msg)
    \/ RejectMissingUrl
    \/ SubscriptRaise
    \/ Invoke
    \/ Next
    \/ Respond

SpecEndpoint == InitEndpoint /\ [][NextEndpoint]_vars

\* a response that reports a failure
Failure(r) == r.status # 200 \/ ~r.body.success

\* C12: every failure response of /scrape carries success false, an error
\* message, a null price, a null sku and confidence 0.
C12_UniformFailure ==
    (response # None /\ Failure(response[1])) =>
        LET body == response[1].body
        IN  /\ {"success", "error", "price", "sku", "confidence"}
                   \subseteq DOMAIN body
            /\ body.success = FALSE
            /\ body.price = None
            /\ body.sku = None
            /\ body.confidence = 0

\* the url field of the request is missing or is not a usable string
MissingOrMalformed(d) ==
    \/ d.kind # "object"
    \/ ~Contains(d, "url")
    \/ \E p \in d.data : p[1] = "url" /\ p[2] = ""

\* C13: for a request whose url is missing or malformed the coroutine is
\* never started and no browser session is launched.
C13_RejectedBeforeCore ==
    (request # None /\ MissingOrMalformed(request)) =>
        /\ pc \in {"request", "responded"}
        /\ browser = None
        /\ stopCalls = 0

\* C20: when the caller holds the result, and when the endpoint answers
\* with it, the stop of the launched session has been attempted; the result
\* reaches the caller in the step that leaves the finally block.
C20_TeardownBeforeDelivery ==
    /\ [](returned # None => (browser # None => stopCalls = 1))
    /\ []((response # None /\ response[1].status = 200) =>
              (returned # None /\ (browser # None => stopCalls = 1)))
    /\ [][returned' # returned =>
              /\ pc = "finally" /\ pc' = "done"
              /\ browser # None => stopCalls' = stopCalls + 1]_vars

C20_Witness ==
    /\ response # None /\ response[1].status = 200
    /\ response[1].body.success
    /\ browser # None /\ stopCalls = 1 /\ stopRaised

(***************************************************************************)
(* Several calls of scrape_price_and_sku in flight on the one scraper of   *)
(* line 174 (one per request thread, each on its own event loop, lines     *)
(* 192-196).  A step is one awaited browser operation or one selector      *)
(* phase; the steps of different invocations interleave freely.            *)
(***************************************************************************)
NumInvocations == 2

Invocations == 1..NumInvocations

\* what a selector phase can end with
PhasePrices == {None} \cup {page_prices[text] : text \in PageTexts}

PhaseSkus == {None} \cup {page_skus[text] : text \in PageTexts}

\* the session invocation i works on, as if line 48 stored it on the scraper
BrowserOf_Shared(i) ==
    IF sessions = <<>> THEN None ELSE Some(Len(sessions))

\* the session invocation i works on: its local of lines 43 and 48
BrowserOf(i) == inv[i].browser

\* invocation i performs an operation on session s
Use(i, s) == [sessions EXCEPT ![s].used = @ \cup {i}]

InitConc ==
    /\ inv \in [Invocations ->
                  {[pc |-> "start", url |-> u, browser |-> None,
                    price |-> None, sku |-> None, result |-> None,
                    returned |-> None] : u \in Urls}]
    /\ sessions = <<>>
    /\ scraper = PriceScraper
    /\ pc = "off"
    /\ url = ""
    /\ browser = None
    /\ sel = 1
    /\ elements = <<>>
    /\ price = None
    /\ sku = None
    /\ result = None
    /\ returned = None
    /\ escaped = None
    /\ stopCalls = 0
    /\ raisedAt = "none"
    /\ selFailed = FALSE
    /\ stopRaised = FALSE
    /\ firstAcc = [f \in Fields |-> None]
    /\ firstReach = [f \in Fields |-> None]
    /\ fnPc = "off"
    /\ fnText = <<>>
    /\ fnOut = None
    /\ request = None
    /\ response = None

\* lines 109-116 in invocation i
ConcFailure(i, msg) ==
    [success |-> FALSE, error |-> msg, price |-> None, sku |-> None,
     source |-> inv[i].url, confidence |-> 0]

\* line 48 in invocation i: a new session, held in the local browser
ConcLaunch(i) ==
    /\ inv[i].pc = "start"
    /\ sessions' = Append(sessions, [owner |-> i, used |-> {}, stops |-> 0])
    /\ inv' = [inv EXCEPT ![i].browser = Some(Len(sessions) + 1),
                          ![i].pc = "navigate"]
    /\ UNCHANGED <<scrapeVars, fnVars, epVars, scraper>>

ConcLaunchRaise(i, msg) ==
    /\ inv[i].pc = "start"
    /\ inv' = [inv EXCEPT ![i].result = Some(ConcFailure(i, msg)),
                          ![i].pc = "finally"]
    /\ UNCHANGED <<scrapeVars, fnVars, epVars, sessions, scraper>>

\* lines 56-60
ConcNavigate(i) ==
    /\ inv[i].pc = "navigate"
    /\ sessions' = Use(i, BrowserOf(i)[1])
    /\ inv' = [inv EXCEPT ![i].pc = "price"]
    /\ UNCHANGED <<scrapeVars, fnVars, epVars, scraper>>

ConcNavigateRaise(i, msg) ==
    /\ inv[i].pc = "navigate"
    /\ sessions' = Use(i, BrowserOf(i)[1])
    /\ inv' = [inv EXCEPT ![i].result = Some(ConcFailure(i, msg)),
                          ![i].pc = "finally"]
    /\ UNCHANGED <<scrapeVars, fnVars, epVars, scraper>>

\* lines 66-81: the price selectors of the scraper, queried on the session
ConcPricePhase(i, found) ==
    /\ inv[i].pc = "price"
    /\ Len(scraper.price_selectors) > 0
    /\ sessions' = Use(i, BrowserOf(i)[1])
    /\ inv' = [inv EXCEPT ![i].price = found, ![i].pc = "sku"]
    /\ UNCHANGED <<scrapeVars, fnVars, epVars, scraper>>

\* lines 84-97
ConcSkuPhase(i, found) ==
    /\ inv[i].pc = "sku"
    /\ Len(scraper.sku_selectors) > 0
    /\ sessions' = Use(i, BrowserOf(i)[1])
    /\ inv' = [inv EXCEPT ![i].sku = found, ![i].pc = "return"]
    /\ UNCHANGED <<scrapeVars, fnVars, epVars, scraper>>

\* lines 99-105
ConcReturn(i) ==
    /\ inv[i].pc = "return"
    /\ inv' = [inv EXCEPT
                 ![i].result =
                     Some([success |-> TRUE, price |-> inv[i].price,
                           sku |-> inv[i].sku, source |-> inv[i].url,
                           confidence |-> IF inv[i].price # None THEN 8 ELSE 3]),
                 ![i].pc = "finally"]
    /\ UNCHANGED <<scrapeVars, fnVars, epVars, sessions, scraper>>

\* lines 117-122: stop() on the session, whether it raises or not
ConcStop(i) ==
    /\ inv[i].pc = "finally"
    /\ BrowserOf(i) # None
    /\ sessions' = [Use(i, BrowserOf(i)[1]) EXCEPT ![BrowserOf(i)[1]].stops = @ + 1]
    /\ inv' = [inv EXCEPT ![i].returned = inv[i].result, ![i].pc = "done"]
    /\ UNCHANGED <<scrapeVars, fnVars, epVars, scraper>>

\* line 118 with no session
ConcNoBrowser(i) ==
    /\ inv[i].pc = "finally"
    /\ BrowserOf(i) = None
    /\ inv' = [inv EXCEPT ![i].returned = inv[i].result, ![i].pc = "done"]
    /\ UNCHANGED <<scrapeVars, fnVars, epVars, sessions, scraper>>

NextConc ==
    \E i \in Invocations :
        \/ ConcLaunch(i)
        \/ \E msg \in ExcMessages : ConcLaunchRaise(i, msg)
        \/ ConcNavigate(i)
        \/ \E msg \in ExcMessages : ConcNavigateRaise(i, msg)
        \/ \E found \in PhasePrices : ConcPricePhase(i, found)
        \/ \E found \in PhaseSkus : ConcSkuPhase(i, found)
        \/ ConcReturn(i)
        \/ ConcStop(i)
        \/ ConcNoBrowser(i)

SpecConc == InitConc /\ [][NextConc]_vars

\* C14: whatever the interleaving, a session is used and stopped only by
\* the invocation that launched it, and at most once stopped; an invocation
\* holds a session of its own and no two hold the same; the selector lists
\* of the scraper stay as constructed; a step of one invocation, a failure
\* included, leaves the locals and the result of every other one as they are.
C14_Isolation ==
    /\ [](\A s \in 1..Len(sessions) :
             /\ sessions[s].used \subseteq {sessions[s].owner}
             /\ sessions[s].stops <= 1)
    /\ [](\A i \in DOMAIN inv :
             /\ inv[i].browser # None =>
                   sessions[inv[i].browser[1]].owner = i
             /\ Cardinality({s \in 1..Len(sessions) : sessions[s].owner = i}) <= 1
             /\ inv[i].pc = "done" =>
                   \A s \in 1..Len(sessions) :
                       sessions[s].owner = i => sessions[s].stops = 1)
    /\ [](scraper = PriceScraper)
    /\ [][\E i \in DOMAIN inv : \A j \in DOMAIN inv \ {i} :
              /\ inv'[j] = inv[j]
              /\ \A s \in 1..Len(sessions) :
                    sessions[s].owner = j => sessions'[s] = sessions[s]]_vars

C14_Witness ==
    /\ Len(sessions) = NumInvocations
    /\ \E i \in DOMAIN inv : \E j \in DOMAIN inv \ {i} :
          /\ inv[i].pc = "finally" /\ inv[i].browser # None
          /\ ~inv[i].result[1].success
          /\ sessions[inv[i].browser[1]].stops = 0
          /\ inv[j].pc = "return" /\ inv[j].price # None
          /\ sessions[inv[j].browser[1]].used = {j}

====
